---- MODULE Spec2Model ----
(***************************************************************************)
(* Vouch Sonic Core (src/mobile/core/src/lib.rs): the configuration        *)
(* validator, the heuristic pre-filter (MockDetector), the DSP detection   *)
(* engine and the thread-shared SonicListener.                             *)
(*                                                                         *)
(* Number conventions                                                      *)
(*   - a sample is an integer in units of 1/32768 (the value the PCM       *)
(*     conversion of process_buffer produces before dividing by 32768.0);  *)
(*   - a confidence is an integer in thousandths (990 is 0.99);            *)
(*   - a threshold is an f32 that may be NaN: a record [nan, milli];       *)
(*     every comparison with NaN is false, as in IEEE 754.                 *)
(* Sums and products are exact (no f32 rounding).                          *)
(***************************************************************************)
EXTENDS Integers, Sequences, FiniteSets, TLC

\* ------------------------------------------------------------------ constants

WATERMARK_MAGIC == <<86, 83, 78, 67>>

MIN_SAMPLES == 1024

DEFAULT_SAMPLE_RATE == 16000

DEFAULT_FRAME_SIZE_MS == 50

DEFAULT_SPREADING_FACTOR == 100

\* Units of a sample per 1.0 (sample as f32 / 32768.0).
SAMPLE_SCALE == 32768

\* ------------------------------------------------------------------ bounds

\* Longest byte buffer handed directly to the byte pre-filter is
\* 4 + MaxPad bytes (the marker plus padding before and after it).
MaxPad == 3

\* Largest sample magnitude (in 1/32768 units) of the catalogued buffers.
MaxAmp == 8

\* ------------------------------------------------------------------ helpers

Min(a, b) == IF a < b THEN a ELSE b

Max(a, b) == IF a > b THEN a ELSE b

Abs(a) == IF a < 0 THEN 0 - a ELSE a

\* Sum of f[lo..hi] by halving (keeps the evaluation depth logarithmic).
SumRange(f, lo, hi) ==
    LET part[r \in (lo .. hi + 1) \X (lo - 1 .. hi)] ==
            IF r[1] > r[2] THEN 0
            ELSE IF r[1] = r[2] THEN f[r[1]]
            ELSE LET mid == (r[1] + r[2]) \div 2
                 IN part[<<r[1], mid>>] + part[<<mid + 1, r[2]>>]
    IN part[<<lo, hi>>]

\* x > y * k for k > 0, without forming y * k.
ExceedsProduct(x, y, k) ==
    \/ x \div k > y
    \/ x \div k = y /\ x % k > 0

\* ------------------------------------------------------------------ f32 thresholds

F32(m) == [nan |-> FALSE, milli |-> m]

NaN == [nan |-> TRUE, milli |-> 0]

\* a < b, a > b on f32 values given in thousandths; false when either is NaN.
FLess(a, b) == ~a.nan /\ ~b.nan /\ a.milli < b.milli

FGreater(a, b) == ~a.nan /\ ~b.nan /\ a.milli > b.milli

FGreaterEq(a, b) == ~a.nan /\ ~b.nan /\ a.milli >= b.milli

FLessEq(a, b) == ~a.nan /\ ~b.nan /\ a.milli <= b.milli

InUnitRange(x) == ~x.nan /\ 0 <= x.milli /\ x.milli <= 1000

\* ------------------------------------------------------------------ errors, results

Ok == [kind |-> "Ok", value |-> 0]

InvalidSampleRate(v) == [kind |-> "InvalidSampleRate", value |-> v]

InvalidConfig == [kind |-> "InvalidConfig", value |-> 0]

BufferTooShort(n) == [kind |-> "BufferTooShort", value |-> n]

ListenerAlreadyRunning == [kind |-> "ListenerAlreadyRunning", value |-> 0]

ListenerNotRunning == [kind |-> "ListenerNotRunning", value |-> 0]

\* The call did not return: a panic unwound it.
Panicked == [kind |-> "Panicked", value |-> 0]

not_detected ==
    [detected |-> FALSE, confidence |-> 0, detection_method |-> "none"]

mock_detected(confidence) ==
    [detected |-> TRUE, confidence |-> confidence, detection_method |-> "mock"]

\* ------------------------------------------------------------------ configuration

SonicConfig(rate, frame, thr, factor, chirp) ==
    [sample_rate |-> rate, frame_size_ms |-> frame,
     detection_threshold |-> thr, spreading_factor |-> factor,
     enable_chirp_sync |-> chirp]

DefaultConfig ==
    SonicConfig(DEFAULT_SAMPLE_RATE, DEFAULT_FRAME_SIZE_MS, F32(500),
                DEFAULT_SPREADING_FACTOR, TRUE)

\* SonicConfig::validate. Both threshold comparisons are false for NaN, so a
\* NaN threshold passes.
validate(c) ==
    IF c.sample_rate < 8000 \/ c.sample_rate > 96000
    THEN InvalidSampleRate(c.sample_rate)
    ELSE IF c.frame_size_ms < 10 \/ c.frame_size_ms > 1000
    THEN InvalidConfig
    ELSE IF \/ FLess(c.detection_threshold, F32(0))
            \/ FGreater(c.detection_threshold, F32(1000))
    THEN InvalidConfig
    ELSE Ok

\* ------------------------------------------------------------------ pre-filter

\* data[i..i+4] == WATERMARK_MAGIC for the 0-based offset i.
MagicAt(data, i) ==
    /\ data[i + 1] = WATERMARK_MAGIC[1]
    /\ data[i + 2] = WATERMARK_MAGIC[2]
    /\ data[i + 3] = WATERMARK_MAGIC[3]
    /\ data[i + 4] = WATERMARK_MAGIC[4]

\* The offsets the scan visits: `for i in 0..data.len() - 4`.
MagicScanRange(data) == 0 .. (Len(data) - 4 - 1)

\* high_byte_count as f32 / (data.len() - 512) as f32
HighByteCount(data) == Cardinality({j \in 513 .. Len(data) : data[j] > 200})

detect_in_bytes(data) ==
    IF Len(data) >= 4 /\ \E i \in MagicScanRange(data) : MagicAt(data, i)
    THEN mock_detected(990)
    ELSE IF Len(data) >= 1024
              /\ HighByteCount(data) * 10 > Len(data) - 512
    THEN mock_detected(Min((HighByteCount(data) * 1000)
                               \div (Len(data) - 512), 950))
    ELSE not_detected

\* high_energy and total_energy over samples.windows(2), in (1/32768)^2.
HighEnergy(buf) ==
    SumRange([w \in 1 .. Len(buf) - 1 |->
                 (buf[w + 1] - buf[w]) * (buf[w + 1] - buf[w])],
             1, Len(buf) - 1)

TotalEnergy(buf) ==
    SumRange([w \in 1 .. Len(buf) - 1 |-> buf[w] * buf[w]],
             1, Len(buf) - 1)

\* ratio = high / (total + 1e-10); ratio > 0.3. On the integer grid the
\* epsilon (0.1 of a unit) never changes the comparison 10 high > 3 total.
\* (ratio * 2.0).min(0.95) in thousandths.
detect_in_samples(buf) ==
    IF Len(buf) < MIN_SAMPLES THEN not_detected
    ELSE LET high == HighEnergy(buf)
             total == TotalEnergy(buf)
         IN IF 10 * high > 3 * total
            THEN mock_detected(IF 2 * high >= total THEN 950
                               ELSE Min((2000 * high) \div total, 950))
            ELSE not_detected

\* ------------------------------------------------------------------ DSP engine

\* A deterministic +1/-1 sequence of the given length. The stream of the
\* seeded StdRng is not reproduced: only the length, the two values and the
\* fact that the sequence is a function of the length alone are.
generate_pn_sequence(length) ==
    [i \in 1 .. length |-> IF ((i * i + 3 * i + 5) % 7) < 4 THEN 1 ELSE 0 - 1]

\* DspEngine::new (fft_planner and frame_buffer hold no decision state).
DspEngine_new(cfg) ==
    [config |-> cfg,
     pn_sequence |-> generate_pn_sequence(cfg.spreading_factor)]

next_power_of_two(n) ==
    LET pow[k \in 0 .. n] == IF k <= 1 THEN 1 ELSE 2 * pow[(k + 1) \div 2]
    IN pow[n]

\* Sum of the samples at 0-based positions congruent to j modulo 4.
Polyphase(buf, j) ==
    LET count == (Len(buf) - j + 3) \div 4
    IN SumRange([m \in 1 .. count |-> buf[4 * (m - 1) + j + 1]], 1, count)

\* compute_fft followed by norm_sqr: the power of each bin (0-based bin k is
\* element k + 1) of the forward transform of the zero-padded samples.
\* Bins 0, N/4, N/2, 3N/4 are the exact 4-point transform of the polyphase
\* sums. The other bins are exactly zero for a signal of period 4 filling the
\* whole transform, which is what every catalogued buffer that reaches the
\* engine is.
compute_fft(buf) ==
    LET len == next_power_of_two(Len(buf))
        s0 == Polyphase(buf, 0)
        s1 == Polyphase(buf, 1)
        s2 == Polyphase(buf, 2)
        s3 == Polyphase(buf, 3)
        re == <<s0 + s1 + s2 + s3, s0 - s2, s0 - s1 + s2 - s3, s0 - s2>>
        im == <<0, s3 - s1, 0, s1 - s3>>
    IN [b \in 1 .. len |->
           IF len >= 4 /\ (b - 1) % (len \div 4) = 0
           THEN LET m == ((b - 1) \div (len \div 4)) + 1
                IN re[m] * re[m] + im[m] * im[m]
           ELSE 0]

\* The dot product of the window starting at 0-based `start` with the
\* pn sequence, in absolute value (the division by step comes later).
WindowCorrelation(buf, pn, start) ==
    Abs(SumRange([j \in 1 .. Len(pn) |-> buf[start + j] * pn[j]],
                 1, Len(pn)))

\* (0..samples.len() - step).step_by(hop)
WindowStarts(len, step, hop) ==
    {s \in 0 .. (len - step - 1) : s % hop = 0}

\* step_by panics when its argument is 0.
SpreadSpectrumHop(step) == step \div 2

\* detect_spread_spectrum: [panicked, detected, confidence].
\* confidence = (max_correlation * 10).min(1), reported in thousandths
\* rounded up, so that it exceeds a threshold given in whole thousandths
\* exactly when the exact quotient does; detected = confidence > threshold
\* is decided on the exact quotient.
detect_spread_spectrum(engine, buf) ==
    LET pn == engine.pn_sequence
        step == Len(pn)
        hop == SpreadSpectrumHop(step)
        thr == engine.config.detection_threshold
    IN IF Len(buf) < step
       THEN [panicked |-> FALSE, detected |-> FALSE, confidence |-> 0]
       ELSE IF hop = 0
       THEN [panicked |-> TRUE, detected |-> FALSE, confidence |-> 0]
       ELSE LET starts == WindowStarts(Len(buf), step, hop)
                dots == [s \in starts |-> WindowCorrelation(buf, pn, s)]
                maxdot == IF starts = {} THEN 0
                          ELSE CHOOSE d \in {dots[s] : s \in starts} :
                                   \A s \in starts : dots[s] <= d
            IN [panicked |-> FALSE,
                detected |->
                    /\ ~thr.nan
                    /\ thr.milli < 1000
                    /\ \/ thr.milli < 0
                       \/ ExceedsProduct(maxdot * 10000, thr.milli * step,
                                         SAMPLE_SCALE),
                confidence |->
                    Min((maxdot * 10000 + step * SAMPLE_SCALE - 1)
                            \div (step * SAMPLE_SCALE), 1000)]

\* The peak bin of spectrum[chunk_start .. chunk_end) (0-based): max_by
\* returns the last of several equally maximal elements.
PeakBin(spectrum, chunk_start, chunk_end) ==
    CHOOSE i \in chunk_start .. (chunk_end - 1) :
        /\ \A k \in chunk_start .. (chunk_end - 1) :
               spectrum[k + 1] <= spectrum[i + 1]
        /\ \A k \in (i + 1) .. (chunk_end - 1) :
               spectrum[k + 1] < spectrum[i + 1]

\* rising_count of detect_chirp_sync over the chunks of 16 bins.
RisingCount(spectrum) ==
    LET half == Len(spectrum) \div 2
        chunks == {c \in 0 .. (half - 1) : c % 16 = 0}
        peak == [c \in chunks |-> PeakBin(spectrum, c, c + Min(16, half - c))]
        prev == [c \in chunks |-> IF c = 0 THEN 0 ELSE peak[c - 16]]
    IN Cardinality({c \in chunks : peak[c] > prev[c]})

detect_chirp_sync(engine, buf) ==
    IF ~engine.config.enable_chirp_sync \/ Len(buf) < 512 THEN FALSE
    ELSE RisingCount(compute_fft(SubSeq(buf, 1, Min(512, Len(buf))))) > 3

\* DspEngine::process: [panicked, result]. The quality estimate only fills
\* the audio_quality field of the result and is left out.
process(engine, buf) ==
    IF Len(buf) < MIN_SAMPLES
    THEN [panicked |-> FALSE, result |-> not_detected]
    ELSE LET ss == detect_spread_spectrum(engine, buf)
             chirp_detected == detect_chirp_sync(engine, buf)
             detected == ss.detected \/ chirp_detected
             confidence == IF chirp_detected THEN Max(ss.confidence, 700)
                           ELSE ss.confidence
             exceeds == \/ ss.detected
                        \/ /\ chirp_detected
                           /\ FGreater(F32(700),
                                       engine.config.detection_threshold)
         IN IF ss.panicked
            THEN [panicked |-> TRUE, result |-> not_detected]
            ELSE IF detected /\ exceeds
            THEN [panicked |-> FALSE,
                  result |-> [detected |-> TRUE, confidence |-> confidence,
                              detection_method |->
                                  IF chirp_detected THEN "chirp_sync"
                                  ELSE "spread_spectrum"]]
            ELSE [panicked |-> FALSE,
                  result |-> [detected |-> FALSE, confidence |-> confidence,
                              detection_method |-> "spread_spectrum"]]

\* ------------------------------------------------------------------ PCM conversion

\* i16::from_le_bytes([lo, hi])
i16_from_le_bytes(lo, hi) ==
    LET u == lo + 256 * hi
    IN IF u >= 32768 THEN u - 65536 ELSE u

\* pcm_data.chunks_exact(2).map(..).collect(): a trailing odd byte is dropped.
pcm_to_samples(bytes) ==
    [k \in 1 .. (Len(bytes) \div 2) |->
        i16_from_le_bytes(bytes[2 * k - 1], bytes[2 * k])]

\* ------------------------------------------------------------------ state

VARIABLES
    built,            \* a SonicListener exists (new returned Ok)
    new_config,       \* the configuration the last SonicListener::new was given
    new_result,       \* what the last SonicListener::new returned
    config,           \* SonicListener.config
    state,            \* SonicListener.state
    is_running,       \* SonicListener.is_running
    callback,         \* SonicListener.callback: "None" or the sink
    dsp_engine,       \* SonicListener.dsp_engine
    engine_lock,      \* the thread holding dsp_engine's write lock, or NoThread
    callback_readers, \* the threads holding callback's read lock
    pc,               \* per thread: where its current call stands
    op,               \* per thread: the operation of its current call
    pcm_data,         \* per thread: process_buffer's argument
    samples,          \* per thread: process_samples' argument
    threshold,        \* per thread: set_detection_threshold's argument
    result,           \* per thread: mock_result / result of the call
    running_seen,     \* per thread: the value is_running.load returned
    ret,              \* per thread: what its last call returned
    notes,            \* per thread: sink notifications made by its current call
    test_data,        \* the buffer a direct detect_in_bytes call was given
    test_result       \* what that call returned

shared == <<built, new_config, new_result, config, state, is_running, callback,
            dsp_engine, engine_lock, callback_readers>>

locals == <<pc, op, pcm_data, samples, threshold, result, running_seen,
            ret, notes>>

harness == <<test_data, test_result>>

vars == <<shared, locals, harness>>

Threads == {"t1", "t2"}

NoThread == "none"

NoOutcome == [kind |-> "None", value |-> 0]

NoRet == [op |-> "none", len |-> 0, outcome |-> NoOutcome,
          result |-> not_detected]

NoNotes == [detected |-> 0, level |-> 0, state |-> 0]

ListenerStates == {"Idle", "Listening", "Processing", "Error"}

\* ------------------------------------------------------------------ inputs

\* A catalogued buffer is kept by its description: its length, the four
\* values it repeats, and the 0-based offset of a marker written over it
\* (NoMagic for none). BufferOf is the buffer itself.
NoMagic == 0 - 1

Described(len, period, magic_at) ==
    [len |-> len, period |-> period, magic_at |-> magic_at]

BufferOf(d) ==
    [i \in 1 .. d.len |->
        IF d.magic_at >= 0 /\ i > d.magic_at /\ i <= d.magic_at + 4
        THEN WATERMARK_MAGIC[i - d.magic_at]
        ELSE d.period[((i - 1) % 4) + 1]]

NoBuffer == Described(0, <<0, 0, 0, 0>>, NoMagic)

Silence(n) == Described(n, <<0, 0, 0, 0>>, NoMagic)

Steady(n) == Described(n, <<MaxAmp, MaxAmp, MaxAmp, MaxAmp>>, NoMagic)

Alternating(n) ==
    Described(n, <<MaxAmp, 0 - MaxAmp, MaxAmp, 0 - MaxAmp>>, NoMagic)

\* n bytes of PCM16LE silence, and of the steady sample MaxAmp.
SilentPcm(n) == Described(n, <<0, 0, 0, 0>>, NoMagic)

SteadyPcm(n) == Described(n, <<MaxAmp, 0, MaxAmp, 0>>, NoMagic)

\* n bytes, every one above 200 (the high-byte heuristic fires).
LoudPcm(n) == Described(n, <<255, 255, 255, 255>>, NoMagic)

MarkedPcm(n, at) == Described(n, <<0, 0, 0, 0>>, at)

\* n bytes, every fourth one above 200 (the high-byte heuristic fires with
\* a ratio of 0.25).
QuarterLoudPcm(n) == Described(n, <<255, 0, 0, 0>>, NoMagic)

SampleLengths ==
    {MIN_SAMPLES - 1, MIN_SAMPLES, MIN_SAMPLES + 1, 2 * MIN_SAMPLES}

SampleBufs ==
    UNION {{Silence(n), Steady(n), Alternating(n)} : n \in SampleLengths}

ByteBufs ==
    {SilentPcm(2 * MIN_SAMPLES - 1), SilentPcm(2 * MIN_SAMPLES),
     SilentPcm(2 * MIN_SAMPLES + 1), SteadyPcm(2 * MIN_SAMPLES),
     MarkedPcm(2 * MIN_SAMPLES, 100), LoudPcm(2 * MIN_SAMPLES),
     QuarterLoudPcm(2 * MIN_SAMPLES)}

ThresholdArgs == {F32(0 - 1000), F32(800), F32(1500), NaN}

\* The buffers and thresholds the two concurrent callers use.
SharedSampleBufs ==
    {Silence(MIN_SAMPLES - 1), Silence(MIN_SAMPLES), Alternating(MIN_SAMPLES)}

SharedByteBufs ==
    {SilentPcm(2 * MIN_SAMPLES - 1), SilentPcm(2 * MIN_SAMPLES + 1),
     MarkedPcm(2 * MIN_SAMPLES, 100)}

SharedThresholdArgs == {F32(800), F32(1500)}

\* The configurations listeners are built from: one listener shared by two
\* threads (SharedConfigs), and one caller on every valid kind of
\* configuration (SeqConfigs).
SharedConfigs == {DefaultConfig}

SeqThresholds == {F32(0), F32(500), F32(1000), NaN}

SeqSpreadingFactors == {0, 1, 2, DEFAULT_SPREADING_FACTOR, MIN_SAMPLES + 1}

SeqConfigs ==
    {SonicConfig(DEFAULT_SAMPLE_RATE, DEFAULT_FRAME_SIZE_MS, th, sf, ch) :
        th \in SeqThresholds, sf \in SeqSpreadingFactors, ch \in BOOLEAN}

\* ------------------------------------------------------------------ tabulation

\* The detectors are functions of their arguments alone. Their values on
\* the catalogued inputs are computed once, here, and looked up by the
\* actions; an input outside the catalogue is computed directly.

\* The samples of a processing call's input.
SamplesOf(input) ==
    IF input[1] = "pcm" THEN pcm_to_samples(BufferOf(input[2]))
    ELSE BufferOf(input[2])

ByteFilterTable ==
    {<<d, detect_in_bytes(BufferOf(d))>> : d \in ByteBufs \cup SharedByteBufs}

DetectInBytesOf(d) ==
    IF \E p \in ByteFilterTable : p[1] = d
    THEN (CHOOSE p \in ByteFilterTable : p[1] = d)[2]
    ELSE detect_in_bytes(BufferOf(d))

\* The number of samples the PCM conversion makes of a catalogued buffer.
ConvertedLenTable ==
    {<<d, Len(pcm_to_samples(BufferOf(d)))>> : d \in ByteBufs \cup SharedByteBufs}

ConvertedLenOf(d) ==
    IF \E p \in ConvertedLenTable : p[1] = d
    THEN (CHOOSE p \in ConvertedLenTable : p[1] = d)[2]
    ELSE Len(pcm_to_samples(BufferOf(d)))

SampleInputs ==
    {<<"samples", d>> : d \in SampleBufs \cup SharedSampleBufs}
        \cup {<<"pcm", d>> : d \in {b \in ByteBufs \cup SharedByteBufs :
                                       ~DetectInBytesOf(b).detected}}

SampleFilterTable ==
    {<<i, detect_in_samples(SamplesOf(i))>> : i \in SampleInputs}

DetectInSamplesOf(input) ==
    IF \E p \in SampleFilterTable : p[1] = input
    THEN (CHOOSE p \in SampleFilterTable : p[1] = input)[2]
    ELSE detect_in_samples(SamplesOf(input))

\* The engines a listener can hold: built from a configuration, with the
\* threshold as built or as set later.
Engines ==
    {[DspEngine_new(c) EXCEPT !.config.detection_threshold = th] :
        c \in SeqConfigs \cup SharedConfigs,
        th \in SeqThresholds \cup {v \in ThresholdArgs \cup SharedThresholdArgs :
                                      InUnitRange(v)}}

EngineTable ==
    {<<e, i, process(e, SamplesOf(i))>> :
        e \in Engines,
        i \in {j \in SampleInputs : ~DetectInSamplesOf(j).detected}}

ProcessOf(engine, input) ==
    IF \E p \in EngineTable : p[1] = engine /\ p[2] = input
    THEN (CHOOSE p \in EngineTable : p[1] = engine /\ p[2] = input)[3]
    ELSE process(engine, SamplesOf(input))

\* ------------------------------------------------------------------ construction

\* The fields of a freshly built listener (SonicListener::new, Ok branch).
Built(c) ==
    /\ built' = TRUE
    /\ config' = c
    /\ state' = "Idle"
    /\ is_running' = FALSE
    /\ dsp_engine' = DspEngine_new(c)
    /\ callback' = "None"
    /\ engine_lock' = NoThread
    /\ callback_readers' = {}

NoListener ==
    /\ built = FALSE
    /\ config = DefaultConfig
    /\ state = "Idle"
    /\ is_running = FALSE
    /\ dsp_engine = [config |-> DefaultConfig, pn_sequence |-> <<>>]
    /\ callback = "None"
    /\ engine_lock = NoThread
    /\ callback_readers = {}

IdleThreads ==
    /\ pc = [t \in Threads |-> "idle"]
    /\ op = [t \in Threads |-> "none"]
    /\ pcm_data = [t \in Threads |-> NoBuffer]
    /\ samples = [t \in Threads |-> NoBuffer]
    /\ threshold = [t \in Threads |-> F32(0)]
    /\ result = [t \in Threads |-> not_detected]
    /\ running_seen = [t \in Threads |-> FALSE]
    /\ ret = [t \in Threads |-> NoRet]
    /\ notes = [t \in Threads |-> NoNotes]

NoHarness ==
    /\ test_data = <<>>
    /\ test_result = not_detected

\* SonicListener::new(c): validate, then build; a failed validation builds
\* nothing.
New(c) ==
    /\ \A t \in Threads : pc[t] = "idle"
    /\ new_config' = c
    /\ new_result' = validate(c)
    /\ IF validate(c).kind = "Ok"
       THEN Built(c)
       ELSE /\ built' = FALSE
            /\ config' = DefaultConfig
            /\ state' = "Idle"
            /\ is_running' = FALSE
            /\ dsp_engine' = [config |-> DefaultConfig, pn_sequence |-> <<>>]
            /\ callback' = "None"
            /\ engine_lock' = NoThread
            /\ callback_readers' = {}
    /\ UNCHANGED <<locals, harness>>

\* ------------------------------------------------------------------ call frames

\* Thread t enters operation o and stands at `next`.
Enter(t, o, next) ==
    /\ pc' = [pc EXCEPT ![t] = next]
    /\ op' = [op EXCEPT ![t] = o]
    /\ ret' = [ret EXCEPT ![t] = NoRet]
    /\ notes' = [notes EXCEPT ![t] = NoNotes]

\* Thread t's call o, given an argument of length len, ends with `outcome`.
Finish(t, o, len, outcome, res) ==
    /\ pc' = [pc EXCEPT ![t] = "idle"]
    /\ op' = [op EXCEPT ![t] = "none"]
    /\ pcm_data' = [pcm_data EXCEPT ![t] = NoBuffer]
    /\ samples' = [samples EXCEPT ![t] = NoBuffer]
    /\ threshold' = [threshold EXCEPT ![t] = F32(0)]
    /\ result' = [result EXCEPT ![t] = not_detected]
    /\ running_seen' = [running_seen EXCEPT ![t] = FALSE]
    /\ ret' = [ret EXCEPT ![t] =
                  [op |-> o, len |-> len, outcome |-> outcome, result |-> res]]

ArgLen(t) ==
    IF op[t] = "process_buffer" THEN pcm_data[t].len ELSE samples[t].len

\* What thread t's processing call works on: process_samples' argument,
\* or process_buffer's bytes, to be converted.
CallInput(t) ==
    IF op[t] = "process_buffer" THEN <<"pcm", pcm_data[t]>>
    ELSE <<"samples", samples[t]>>

Goto(t, next) == pc' = [pc EXCEPT ![t] = next]

Notify(t, what) == notes' = [notes EXCEPT ![t][what] = @ + 1]

\* ------------------------------------------------------------------ start_listening

\* if self.is_running.load(SeqCst) { return Err(ListenerAlreadyRunning) }
StartAlreadyRunning(running) == running

StartListening(t) ==
    /\ built /\ pc[t] = "idle"
    /\ IF StartAlreadyRunning(is_running)
       THEN /\ Finish(t, "start_listening", 0, ListenerAlreadyRunning,
                      not_detected)
            /\ notes' = [notes EXCEPT ![t] = NoNotes]
       ELSE /\ Enter(t, "start_listening", "sl_callback")
            /\ UNCHANGED <<pcm_data, samples, threshold, result, running_seen>>
    /\ UNCHANGED <<shared, harness>>

\* *self.callback.write() = Some(callback.clone())
SlStoreCallback(t) ==
    /\ pc[t] = "sl_callback"
    /\ callback_readers = {}
    /\ callback' = "sink"
    /\ Goto(t, "sl_running")
    /\ UNCHANGED <<built, new_config, new_result, config, state, is_running, dsp_engine,
                   engine_lock, callback_readers>>
    /\ UNCHANGED <<op, pcm_data, samples, threshold, result, running_seen,
                   ret, notes, harness>>

\* self.is_running.store(true, SeqCst)
SlStoreRunning(t) ==
    /\ pc[t] = "sl_running"
    /\ is_running' = TRUE
    /\ Goto(t, "sl_state")
    /\ UNCHANGED <<built, new_config, new_result, config, state, callback, dsp_engine,
                   engine_lock, callback_readers>>
    /\ UNCHANGED <<op, pcm_data, samples, threshold, result, running_seen,
                   ret, notes, harness>>

\* *self.state.write() = ListenerState::Listening
SlWriteState(t) ==
    /\ pc[t] = "sl_state"
    /\ state' = "Listening"
    /\ Goto(t, "sl_notify")
    /\ UNCHANGED <<built, new_config, new_result, config, is_running, callback,
                   dsp_engine, engine_lock, callback_readers>>
    /\ UNCHANGED <<op, pcm_data, samples, threshold, result, running_seen,
                   ret, notes, harness>>

\* callback.on_state_changed(Listening); Ok(())
SlNotify(t) ==
    /\ pc[t] = "sl_notify"
    /\ Notify(t, "state")
    /\ Finish(t, "start_listening", 0, Ok, not_detected)
    /\ UNCHANGED <<shared, harness>>

\* ------------------------------------------------------------------ stop_listening

\* if !self.is_running.load(SeqCst) { return Err(ListenerNotRunning) }
StopNotRunning(running) == ~running

StopListening(t) ==
    /\ built /\ pc[t] = "idle"
    /\ IF StopNotRunning(is_running)
       THEN /\ Finish(t, "stop_listening", 0, ListenerNotRunning, not_detected)
            /\ notes' = [notes EXCEPT ![t] = NoNotes]
       ELSE /\ Enter(t, "stop_listening", "st_running")
            /\ UNCHANGED <<pcm_data, samples, threshold, result, running_seen>>
    /\ UNCHANGED <<shared, harness>>

\* self.is_running.store(false, SeqCst)
StStoreRunning(t) ==
    /\ pc[t] = "st_running"
    /\ is_running' = FALSE
    /\ Goto(t, "st_state")
    /\ UNCHANGED <<built, new_config, new_result, config, state, callback, dsp_engine,
                   engine_lock, callback_readers>>
    /\ UNCHANGED <<op, pcm_data, samples, threshold, result, running_seen,
                   ret, notes, harness>>

\* *self.state.write() = ListenerState::Idle
StWriteState(t) ==
    /\ pc[t] = "st_state"
    /\ state' = "Idle"
    /\ Goto(t, "st_callback")
    /\ UNCHANGED <<built, new_config, new_result, config, is_running, callback,
                   dsp_engine, engine_lock, callback_readers>>
    /\ UNCHANGED <<op, pcm_data, samples, threshold, result, running_seen,
                   ret, notes, harness>>

\* if let Some(callback) = self.callback.read().as_ref(): the read guard is
\* taken here and lives until the end of the if-let body.
StReadCallback(t) ==
    /\ pc[t] = "st_callback"
    /\ IF callback = "None"
       THEN /\ Finish(t, "stop_listening", 0, Ok, not_detected)
            /\ UNCHANGED <<callback_readers, notes>>
       ELSE /\ callback_readers' = callback_readers \cup {t}
            /\ Goto(t, "st_notify")
            /\ UNCHANGED <<op, pcm_data, samples, threshold, result,
                           running_seen, ret, notes>>
    /\ UNCHANGED <<built, new_config, new_result, config, state, is_running, callback,
                   dsp_engine, engine_lock, harness>>

\* callback.on_state_changed(Idle); the guard is dropped; Ok(())
StNotify(t) ==
    /\ pc[t] = "st_notify"
    /\ Notify(t, "state")
    /\ callback_readers' = callback_readers \ {t}
    /\ Finish(t, "stop_listening", 0, Ok, not_detected)
    /\ UNCHANGED <<built, new_config, new_result, config, state, is_running, callback,
                   dsp_engine, engine_lock, harness>>

\* ------------------------------------------------------------------ process_buffer

\* A faulty length check that also turns away a buffer of exactly the
\* required length.
TooShortOffByOne(len, required) == len <= required

\* if pcm_data.len() < MIN_SAMPLES * 2 / if samples.len() < MIN_SAMPLES
TooShort(len, required) == len < required

ProcessBuffer(t, data) ==
    /\ built /\ pc[t] = "idle"
    /\ IF TooShort(data.len, MIN_SAMPLES * 2)
       THEN /\ Finish(t, "process_buffer", data.len,
                      BufferTooShort(MIN_SAMPLES * 2), not_detected)
            /\ notes' = [notes EXCEPT ![t] = NoNotes]
       ELSE /\ Enter(t, "process_buffer", "pb_processing")
            /\ pcm_data' = [pcm_data EXCEPT ![t] = data]
            /\ UNCHANGED <<samples, threshold, result, running_seen>>
    /\ UNCHANGED <<shared, harness>>

\* *self.state.write() = Processing; then, on the caller's own data, the
\* byte pre-filter, the PCM conversion and process_samples' length check.
PbWriteProcessing(t) ==
    /\ pc[t] = "pb_processing"
    /\ state' = "Processing"
    /\ LET mock_result == DetectInBytesOf(pcm_data[t])
       IN IF mock_result.detected
          THEN /\ result' = [result EXCEPT ![t] = mock_result]
               /\ Goto(t, "pf_emit")
               /\ UNCHANGED <<op, pcm_data, samples, threshold, running_seen,
                              ret>>
          ELSE IF TooShort(ConvertedLenOf(pcm_data[t]), MIN_SAMPLES)
          THEN Finish(t, "process_buffer", pcm_data[t].len,
                      BufferTooShort(MIN_SAMPLES), not_detected)
          ELSE /\ Goto(t, "ps_processing")
               /\ UNCHANGED <<op, pcm_data, samples, threshold, result,
                              running_seen, ret>>
    /\ UNCHANGED <<built, new_config, new_result, config, is_running,
                   callback, dsp_engine, engine_lock, callback_readers>>
    /\ UNCHANGED <<notes, harness>>

\* ------------------------------------------------------------------ process_samples

ProcessSamples(t, s) ==
    /\ built /\ pc[t] = "idle"
    /\ IF TooShort(s.len, MIN_SAMPLES)
       THEN /\ Finish(t, "process_samples", s.len,
                      BufferTooShort(MIN_SAMPLES), not_detected)
            /\ notes' = [notes EXCEPT ![t] = NoNotes]
       ELSE /\ Enter(t, "process_samples", "ps_processing")
            /\ samples' = [samples EXCEPT ![t] = s]
            /\ UNCHANGED <<pcm_data, threshold, result, running_seen>>
    /\ UNCHANGED <<shared, harness>>

\* *self.state.write() = ListenerState::Processing
PsWriteProcessing(t) ==
    /\ pc[t] = "ps_processing"
    /\ state' = "Processing"
    /\ Goto(t, "ps_level")
    /\ UNCHANGED <<built, new_config, new_result, config, is_running,
                   callback, dsp_engine, engine_lock, callback_readers>>
    /\ UNCHANGED <<op, pcm_data, samples, threshold, result, running_seen,
                   ret, notes, harness>>

\* After the audio level: MockDetector::detect_in_samples on the caller's
\* samples; a hit goes to emit_detection and returns, a miss to the engine.
AfterLevel(t) ==
    LET mock_result == DetectInSamplesOf(CallInput(t))
    IN IF mock_result.detected
       THEN /\ result' = [result EXCEPT ![t] = mock_result]
            /\ Goto(t, "pf_emit")
       ELSE /\ Goto(t, "ps_engine_lock")
            /\ UNCHANGED result

\* if let Some(callback) = self.callback.read().as_ref() (audio level)
PsLevel(t) ==
    /\ pc[t] = "ps_level"
    /\ IF callback = "None"
       THEN /\ AfterLevel(t)
            /\ UNCHANGED callback_readers
       ELSE /\ callback_readers' = callback_readers \cup {t}
            /\ Goto(t, "ps_level_notify")
            /\ UNCHANGED result
    /\ UNCHANGED <<built, new_config, new_result, config, state, is_running,
                   callback, dsp_engine, engine_lock>>
    /\ UNCHANGED <<op, pcm_data, samples, threshold, running_seen, ret,
                   notes, harness>>

\* callback.on_audio_level_changed(level_db); the guard is dropped
PsLevelNotify(t) ==
    /\ pc[t] = "ps_level_notify"
    /\ Notify(t, "level")
    /\ callback_readers' = callback_readers \ {t}
    /\ AfterLevel(t)
    /\ UNCHANGED <<built, new_config, new_result, config, state, is_running,
                   callback, dsp_engine, engine_lock>>
    /\ UNCHANGED <<op, pcm_data, samples, threshold, running_seen, ret,
                   harness>>

\* emit_detection after a pre-filter hit: the callback read guard is taken.
\* With no sink the call returns Ok(mock_result) at once.
PfEmit(t) ==
    /\ pc[t] = "pf_emit"
    /\ IF callback = "None"
       THEN /\ Finish(t, op[t], ArgLen(t), Ok, result[t])
            /\ UNCHANGED callback_readers
       ELSE /\ callback_readers' = callback_readers \cup {t}
            /\ Goto(t, "pf_emit_notify")
            /\ UNCHANGED <<op, pcm_data, samples, threshold, result,
                           running_seen, ret>>
    /\ UNCHANGED <<built, new_config, new_result, config, state, is_running,
                   callback, dsp_engine, engine_lock>>
    /\ UNCHANGED <<notes, harness>>

\* callback.on_watermark_detected(result.clone()); return Ok(mock_result)
PfEmitNotify(t) ==
    /\ pc[t] = "pf_emit_notify"
    /\ Notify(t, "detected")
    /\ callback_readers' = callback_readers \ {t}
    /\ Finish(t, op[t], ArgLen(t), Ok, result[t])
    /\ UNCHANGED <<built, new_config, new_result, config, state, is_running,
                   callback, dsp_engine, engine_lock, harness>>

\* A faulty engine lock that is never granted (a guard leaked by an earlier
\* holder).
EngineLockNeverGranted == FALSE

\* A faulty engine lock that is granted whoever holds it.
EngineLockAlwaysGranted == TRUE

\* self.dsp_engine.write(): granted when no thread holds the lock.
EngineLockFree == engine_lock = NoThread

PsEngineLock(t) ==
    /\ pc[t] = "ps_engine_lock"
    /\ EngineLockFree
    /\ engine_lock' = t
    /\ Goto(t, "ps_engine")
    /\ UNCHANGED <<built, new_config, new_result, config, state, is_running,
                   callback, dsp_engine, callback_readers>>
    /\ UNCHANGED <<op, pcm_data, samples, threshold, result, running_seen,
                   ret, notes, harness>>

\* .process(samples) under the write guard, which is dropped at the end of
\* the statement, also when process panics (the call then never returns).
PsEngineProcess(t) ==
    /\ pc[t] = "ps_engine"
    /\ engine_lock' = NoThread
    /\ LET r == ProcessOf(dsp_engine, CallInput(t))
       IN IF r.panicked
          THEN Finish(t, op[t], ArgLen(t), Panicked, not_detected)
          ELSE /\ result' = [result EXCEPT ![t] = r.result]
               /\ Goto(t, IF r.result.detected THEN "en_emit"
                          ELSE "ps_load_running")
               /\ UNCHANGED <<op, pcm_data, samples, threshold, running_seen,
                              ret>>
    /\ UNCHANGED <<built, new_config, new_result, config, state, is_running,
                   callback, dsp_engine, callback_readers>>
    /\ UNCHANGED <<notes, harness>>

\* A faulty emit after an engine detection that never reaches the sink.
EnEmitDropped(t) ==
    /\ pc[t] = "en_emit"
    /\ Goto(t, "ps_load_running")
    /\ UNCHANGED <<shared, harness>>
    /\ UNCHANGED <<op, pcm_data, samples, threshold, result, running_seen,
                   ret, notes>>

\* emit_detection after an engine detection
EnEmit(t) ==
    /\ pc[t] = "en_emit"
    /\ IF callback = "None"
       THEN /\ Goto(t, "ps_load_running")
            /\ UNCHANGED callback_readers
       ELSE /\ callback_readers' = callback_readers \cup {t}
            /\ Goto(t, "en_emit_notify")
    /\ UNCHANGED <<built, new_config, new_result, config, state, is_running,
                   callback, dsp_engine, engine_lock>>
    /\ UNCHANGED <<op, pcm_data, samples, threshold, result, running_seen,
                   ret, notes, harness>>

EnEmitNotify(t) ==
    /\ pc[t] = "en_emit_notify"
    /\ Notify(t, "detected")
    /\ callback_readers' = callback_readers \ {t}
    /\ Goto(t, "ps_load_running")
    /\ UNCHANGED <<built, new_config, new_result, config, state, is_running,
                   callback, dsp_engine, engine_lock>>
    /\ UNCHANGED <<op, pcm_data, samples, threshold, result, running_seen,
                   ret, harness>>

\* self.is_running.load(SeqCst): the assigned value is evaluated before the
\* state lock is taken.
PsLoadRunning(t) ==
    /\ pc[t] = "ps_load_running"
    /\ running_seen' = [running_seen EXCEPT ![t] = is_running]
    /\ Goto(t, "ps_final")
    /\ UNCHANGED <<shared, harness>>
    /\ UNCHANGED <<op, pcm_data, samples, threshold, result, ret, notes>>

\* A faulty restore that flags a stopped listener as failed.
FinalStateErrorWhenStopped(running) ==
    IF running THEN "Listening" ELSE "Error"

\* The state a completed engine run leaves.
FinalState(running) == IF running THEN "Listening" ELSE "Idle"

\* *self.state.write() = Listening or Idle; Ok(result)
PsWriteFinal(t) ==
    /\ pc[t] = "ps_final"
    /\ state' = FinalState(running_seen[t])
    /\ Finish(t, op[t], ArgLen(t), Ok, result[t])
    /\ UNCHANGED <<built, new_config, new_result, config, is_running,
                   callback, dsp_engine, engine_lock, callback_readers>>
    /\ UNCHANGED <<notes, harness>>

\* ------------------------------------------------------------------ set_detection_threshold

\* if threshold >= 0.0 && threshold <= 1.0
ThresholdAccepted(v) == FGreaterEq(v, F32(0)) /\ FLessEq(v, F32(1000))

\* The range check and self.config.write().detection_threshold = threshold
SetDetectionThreshold(t, v) ==
    /\ built /\ pc[t] = "idle"
    /\ IF ThresholdAccepted(v)
       THEN /\ config' = [config EXCEPT !.detection_threshold = v]
            /\ Enter(t, "set_detection_threshold", "sd_engine")
            /\ threshold' = [threshold EXCEPT ![t] = v]
            /\ UNCHANGED <<pcm_data, samples, result, running_seen>>
       ELSE /\ Finish(t, "set_detection_threshold", 0, Ok, not_detected)
            /\ notes' = [notes EXCEPT ![t] = NoNotes]
            /\ UNCHANGED config
    /\ UNCHANGED <<built, new_config, new_result, state, is_running,
                   callback, dsp_engine, engine_lock, callback_readers,
                   harness>>

\* self.dsp_engine.write().config.detection_threshold = threshold
SdWriteEngine(t) ==
    /\ pc[t] = "sd_engine"
    /\ EngineLockFree
    /\ dsp_engine' =
           [dsp_engine EXCEPT !.config.detection_threshold = threshold[t]]
    /\ Finish(t, "set_detection_threshold", 0, Ok, not_detected)
    /\ UNCHANGED <<built, new_config, new_result, config, state, is_running,
                   callback, engine_lock, callback_readers>>
    /\ UNCHANGED <<notes, harness>>

\* ------------------------------------------------------------------ observers

\* get_state: *self.state.read(); is_listening: self.is_running.load(SeqCst);
\* get_config: self.config.read().clone(). Each is one statement: the read
\* lock is taken and dropped within it, and no writer holds the state or the
\* config lock across statements, so the read is always granted.
GetState(t) ==
    /\ built /\ pc[t] = "idle"
    /\ Finish(t, "get_state", 0, Ok, not_detected)
    /\ notes' = [notes EXCEPT ![t] = NoNotes]
    /\ UNCHANGED <<shared, harness>>

IsListening(t) ==
    /\ built /\ pc[t] = "idle"
    /\ Finish(t, "is_listening", 0, Ok, not_detected)
    /\ notes' = [notes EXCEPT ![t] = NoNotes]
    /\ UNCHANGED <<shared, harness>>

GetConfig(t) ==
    /\ built /\ pc[t] = "idle"
    /\ Finish(t, "get_config", 0, Ok, not_detected)
    /\ notes' = [notes EXCEPT ![t] = NoNotes]
    /\ UNCHANGED <<shared, harness>>

\* ------------------------------------------------------------------ direct calls

\* MockDetector::detect_in_bytes(&data), as the unit tests call it.
TestDetectInBytes(data) ==
    /\ test_data' = data
    /\ test_result' = detect_in_bytes(data)
    /\ UNCHANGED <<shared, locals>>

\* ------------------------------------------------------------------ specifications

\* The state SonicListener::new(c) leaves for a valid c.
Constructed(c) ==
    /\ built = TRUE
    /\ new_config = c
    /\ new_result = Ok
    /\ config = c
    /\ state = "Idle"
    /\ is_running = FALSE
    /\ dsp_engine = DspEngine_new(c)
    /\ callback = "None"
    /\ engine_lock = NoThread
    /\ callback_readers = {}

Init ==
    /\ \E c \in SharedConfigs : Constructed(c)
    /\ IdleThreads
    /\ NoHarness

Step(t) ==
    \/ StartListening(t)
    \/ SlStoreCallback(t)
    \/ SlStoreRunning(t)
    \/ SlWriteState(t)
    \/ SlNotify(t)
    \/ StopListening(t)
    \/ StStoreRunning(t)
    \/ StWriteState(t)
    \/ StReadCallback(t)
    \/ StNotify(t)
    \/ PbWriteProcessing(t)
    \/ PsWriteProcessing(t)
    \/ PsLevel(t)
    \/ PsLevelNotify(t)
    \/ PfEmit(t)
    \/ PfEmitNotify(t)
    \/ PsEngineLock(t)
    \/ PsEngineProcess(t)
    \/ EnEmit(t)
    \/ EnEmitNotify(t)
    \/ PsLoadRunning(t)
    \/ PsWriteFinal(t)
    \/ SdWriteEngine(t)

Next ==
    \E t \in Threads :
        \/ Step(t)
        \/ \E data \in SharedByteBufs : ProcessBuffer(t, data)
        \/ \E s \in SharedSampleBufs : ProcessSamples(t, s)
        \/ \E v \in SharedThresholdArgs : SetDetectionThreshold(t, v)

Spec == Init /\ [][Next]_vars

InitSeq ==
    /\ \E c \in SeqConfigs : Constructed(c)
    /\ IdleThreads
    /\ NoHarness

NextSeq ==
    \/ Step("t1")
    \/ \E data \in ByteBufs : ProcessBuffer("t1", data)
    \/ \E s \in SampleBufs : ProcessSamples("t1", s)
    \/ \E v \in ThresholdArgs : SetDetectionThreshold("t1", v)

SpecSeq == InitSeq /\ [][NextSeq]_vars

\* SonicListener::new on every kind of configuration.
NewSampleRates == {7999, 8000, DEFAULT_SAMPLE_RATE, 96000, 96001}

NewFrameSizes == {9, 10, DEFAULT_FRAME_SIZE_MS, 1000, 1001}

NewThresholds ==
    {F32(0 - 1), F32(0), F32(500), F32(1000), F32(1001), NaN}

NewConfigs ==
    {SonicConfig(sr, fs, th, DEFAULT_SPREADING_FACTOR, TRUE) :
        sr \in NewSampleRates, fs \in NewFrameSizes, th \in NewThresholds}

InitNew ==
    /\ NoListener
    /\ new_config = DefaultConfig
    /\ new_result = NoOutcome
    /\ IdleThreads
    /\ NoHarness

NextNew == \E c \in NewConfigs : New(c)

SpecNew == InitNew /\ [][NextNew]_vars

\* The byte pre-filter on short buffers: the marker with up to MaxPad bytes
\* of padding around it, and buffers without the marker.
PadBytes == {0, 86, 255}

RECURSIVE Paddings(_)
Paddings(n) ==
    IF n = 0 THEN {<<>>}
    ELSE {<<b>> \o p : b \in PadBytes, p \in Paddings(n - 1)}

MarkedBufs ==
    UNION {{before \o WATERMARK_MAGIC \o after :
               before \in Paddings(nk[2]), after \in Paddings(nk[1] - nk[2])} :
           nk \in {x \in (0 .. MaxPad) \X (0 .. MaxPad) : x[2] <= x[1]}}

UnmarkedBufs == UNION {Paddings(n) : n \in 0 .. MaxPad + 1}

TestByteBufs ==
    MarkedBufs \cup UnmarkedBufs
        \cup {BufferOf(MarkedPcm(2 * MIN_SAMPLES, 100)),
              BufferOf(MarkedPcm(2 * MIN_SAMPLES, 2 * MIN_SAMPLES - 4))}

InitBytes ==
    /\ NoListener
    /\ new_config = DefaultConfig
    /\ new_result = NoOutcome
    /\ IdleThreads
    /\ NoHarness

NextBytes == \E data \in TestByteBufs : TestDetectInBytes(data)

SpecBytes == InitBytes /\ [][NextBytes]_vars

\* Two threads sharing one listener, observers included, under fair
\* scheduling. A thread inside a call stands at one step at a time. A step
\* that waits for nothing stays enabled until it is taken, so it is taken
\* because the thread keeps being scheduled. A step that waits for the
\* engine's write lock (PsEngineLock, SdWriteEngine) or for the sink's write
\* lock (SlStoreCallback) is taken if the lock is free again and again:
\* parking_lot's RwLock hands a lock over to waiting threads and holds back
\* new readers while a writer waits. Strong fairness of the thread's steps
\* says both. No fairness is put on the start of a call: callers may stop
\* calling.
\* The calls made are those that take a lock or wait for one; a call turned
\* away by its length check is a single step.
FairByteBufs == {SilentPcm(2 * MIN_SAMPLES)}

FairSampleBufs == {Alternating(MIN_SAMPLES)}

FairThresholdArgs == {F32(800)}

NextFair ==
    \E t \in Threads :
        \/ Step(t)
        \/ \E data \in FairByteBufs : ProcessBuffer(t, data)
        \/ \E s \in FairSampleBufs : ProcessSamples(t, s)
        \/ \E v \in FairThresholdArgs : SetDetectionThreshold(t, v)
        \/ GetState(t)
        \/ IsListening(t)
        \/ GetConfig(t)

Fairness == \A t \in Threads : SF_vars(Step(t))

SpecFair == Init /\ [][NextFair]_vars /\ Fairness

\* Two threads sharing one listener, setting and reading the threshold:
\* values in [0, 1], its upper end included, and values outside.
RaceThresholdArgs == {F32(200), F32(800), F32(1000), F32(1500), NaN}

NextThreshold ==
    \E t \in Threads :
        \/ \E v \in RaceThresholdArgs : SetDetectionThreshold(t, v)
        \/ SdWriteEngine(t)
        \/ GetConfig(t)

SpecThreshold == Init /\ [][NextThreshold]_vars

\* ------------------------------------------------------------------ properties

ProcessingOps == {"process_buffer", "process_samples"}

AllIdle == \A t \in Threads : pc[t] = "idle"

\* C1: once a process_buffer or process_samples call that passed its length
\* check has returned, with no call in flight, the state is Listening if the
\* running flag is set and Idle otherwise (never Processing), whichever path
\* the call took.
C1_StateRestoredAfterProcessing ==
    \A t \in Threads :
        (/\ AllIdle
         /\ ret[t].op \in ProcessingOps
         /\ ret[t].outcome = Ok)
        => state = (IF is_running THEN "Listening" ELSE "Idle")

\* C1, the failing case: a call answered by a pre-filter has returned and
\* the state is still Processing.
C1_PrefilterHitLeftProcessing ==
    \E t \in Threads :
        /\ AllIdle
        /\ ret[t].op \in ProcessingOps
        /\ ret[t].outcome = Ok
        /\ ret[t].result.detection_method = "mock"
        /\ state = "Processing"

\* Thread t's processing call has performed at least its first step.
Stepped(t) ==
    /\ op[t] \in ProcessingOps
    /\ pc[t] # "idle"
    /\ pc[t] # (IF op[t] = "process_buffer" THEN "pb_processing"
                ELSE "ps_processing")

\* C2 as stated: processing calls are serialized, so no two threads are
\* both part-way through the steps of a processing call.
C2_ProcessingCallsSerialized ==
    \A t, u \in Threads : t # u => ~(Stepped(t) /\ Stepped(u))

\* C2 as it holds: the engine runs of processing calls exclude each other;
\* a thread inside the engine run holds the engine's write lock and no other
\* thread is inside the engine run. The other steps may interleave.
C2_EngineRunsExclusive ==
    /\ \A t \in Threads : pc[t] = "ps_engine" => engine_lock = t
    /\ \A t, u \in Threads :
           t # u => ~(pc[t] = "ps_engine" /\ pc[u] = "ps_engine")

\* C2, the case: one call is inside the engine run while another call, past
\* its own pre-filter, waits for the engine.
C2_SecondCallWaitsForEngine ==
    \E t, u \in Threads :
        /\ t # u
        /\ pc[t] = "ps_engine"
        /\ pc[u] = "ps_engine_lock"

\* Thread t is inside operation o, past the check on the running flag: the
\* call returns Ok.
PastRunningCheck(t, o) == op[t] = o /\ pc[t] # "idle"

\* C3: successful start_listening and stop_listening calls alternate under
\* any interleaving: two concurrent start_listening calls never both
\* succeed, and neither do two concurrent stop_listening calls.
C3_StartStopAlternate ==
    \A t, u \in Threads :
        t # u =>
            /\ ~(/\ PastRunningCheck(t, "start_listening")
                 /\ PastRunningCheck(u, "start_listening"))
            /\ ~(/\ PastRunningCheck(t, "stop_listening")
                 /\ PastRunningCheck(u, "stop_listening"))

\* C3, the failing case: one start_listening is about to return Ok while a
\* second one, which found the flag clear, is setting it again.
C3_TwoStartsSucceed ==
    \E t, u \in Threads :
        /\ t # u
        /\ op[t] = "start_listening" /\ pc[t] = "sl_notify"
        /\ op[u] = "start_listening" /\ pc[u] = "sl_running"
        /\ is_running

\* C4: no call aborts: on a listener built from any accepted configuration,
\* every call returns a result or a declared error.
C4_NoCallAborts ==
    \A t \in Threads : ret[t].outcome # Panicked

\* C4, the failing case: the configuration passed validation, the
\* spread-spectrum hop is zero and a processing call of at least MIN_SAMPLES
\* samples was unwound by the panic.
C4_ZeroHopPanicked ==
    \E t \in Threads :
        /\ validate(config) = Ok
        /\ SpreadSpectrumHop(Len(dsp_engine.pn_sequence)) = 0
        /\ ret[t].op = "process_samples"
        /\ ret[t].len >= MIN_SAMPLES
        /\ ret[t].outcome = Panicked

\* C5: process_samples on an all-zero buffer of at least MIN_SAMPLES samples
\* returns a result with detected = false, for every valid configuration.
C5_SilenceNotDetected ==
    [][\A t \in Threads :
           (/\ op[t] = "process_samples"
            /\ samples[t] = Silence(samples[t].len)
            /\ samples[t].len >= MIN_SAMPLES
            /\ pc[t] # "idle"
            /\ pc'[t] = "idle"
            /\ ret'[t].outcome = Ok)
           => ~ret'[t].result.detected]_vars

\* C5, the failing case: on the default configuration the engine has
\* reported a chirp-sync detection for a silent buffer.
C5_SilenceChirpDetected ==
    \E t \in Threads :
        /\ config = DefaultConfig
        /\ op[t] = "process_samples"
        /\ samples[t] = Silence(MIN_SAMPLES)
        /\ pc[t] = "en_emit"
        /\ result[t].detected
        /\ result[t].detection_method = "chirp_sync"
        /\ result[t].confidence = 700

\* C6: a buffer holding the marker at any offset from 0 to its length - 4
\* is detected by the byte pre-filter with confidence above 0.9.
C6_MagicAnywhereDetected ==
    \A i \in 0 .. (Len(test_data) - 4) :
        MagicAt(test_data, i)
        => test_result.detected /\ test_result.confidence > 900

\* C6, the failing case: the marker sits at the last offset and the
\* pre-filter reported nothing.
C6_LastOffsetMissed ==
    /\ Len(test_data) >= 4
    /\ MagicAt(test_data, Len(test_data) - 4)
    /\ ~test_result.detected

\* C7: process_buffer returns BufferTooShort(2048) exactly when given fewer
\* than 2048 bytes and never BufferTooShort(1024); process_samples returns
\* BufferTooShort(1024) exactly when given fewer than 1024 samples; a call
\* that fails this way leaves state, running flag, sink and configuration
\* unchanged and notifies nothing.
C7_BufferTooShortExactly ==
    [][\A t \in Threads :
           (ret'[t] # ret[t] /\ ret'[t].op \in ProcessingOps)
           => /\ ret'[t].op = "process_buffer"
                 => /\ ret'[t].outcome = BufferTooShort(2 * MIN_SAMPLES)
                       <=> ret'[t].len < 2 * MIN_SAMPLES
                    /\ ret'[t].outcome # BufferTooShort(MIN_SAMPLES)
              /\ ret'[t].op = "process_samples"
                 => (ret'[t].outcome = BufferTooShort(MIN_SAMPLES)
                       <=> ret'[t].len < MIN_SAMPLES)
              /\ ret'[t].outcome.kind = "BufferTooShort"
                 => /\ UNCHANGED <<state, is_running, callback, config>>
                    /\ notes'[t] = NoNotes]_vars

\* C7, the case: on a running listener with a sink, one byte short of the
\* minimum was refused and a buffer of exactly the minimum was processed.
C7_ShortRefusedExactProcessed ==
    \E t, u \in Threads :
        /\ is_running /\ callback = "sink"
        /\ ret[t].op = "process_buffer"
        /\ ret[t].len = 2 * MIN_SAMPLES - 1
        /\ ret[t].outcome = BufferTooShort(2 * MIN_SAMPLES)
        /\ ret[u].op \in ProcessingOps
        /\ ret[u].len = (IF ret[u].op = "process_buffer" THEN 2 * MIN_SAMPLES
                         ELSE MIN_SAMPLES)
        /\ ret[u].outcome = Ok

ConfigInRange(c) ==
    /\ 8000 <= c.sample_rate /\ c.sample_rate <= 96000
    /\ 10 <= c.frame_size_ms /\ c.frame_size_ms <= 1000
    /\ InUnitRange(c.detection_threshold)

\* What set_detection_threshold changes: a value outside [0, 1] changes
\* nothing; a value inside becomes the configured threshold, reported by
\* get_config when the call returns, and nothing else changes.
ThresholdFrame ==
    \A t \in Threads :
        /\ \A v \in ThresholdArgs \cup SharedThresholdArgs :
               SetDetectionThreshold(t, v)
               => /\ UNCHANGED <<state, is_running, callback>>
                  /\ config' = (IF InUnitRange(v)
                                THEN [config EXCEPT !.detection_threshold = v]
                                ELSE config)
        /\ SdWriteEngine(t)
           => /\ UNCHANGED <<config, state, is_running, callback>>
              /\ config.detection_threshold = threshold[t]

\* The frame part of C8 on its own.
ThresholdFrameHolds == [][ThresholdFrame]_vars

\* C8: set_detection_threshold changes the configured threshold exactly
\* when the value is in [0, 1] and changes nothing else; so after any
\* sequence of operations the configuration of a created listener has its
\* sample rate in [8000, 96000], frame size in [10, 1000] and threshold in
\* [0, 1].
C8_ThresholdFrameAndRange ==
    [][ThresholdFrame /\ (built' => ConfigInRange(config'))]_vars

\* C8, the failing case: a listener created with a NaN threshold has served
\* a set_detection_threshold call that was turned away.
C8_NaNThresholdKept ==
    \E t \in Threads :
        /\ built
        /\ config.detection_threshold.nan
        /\ ret[t].op = "set_detection_threshold"

\* C9: create succeeds, giving an Idle listener that is not running and has
\* no sink, exactly when sample rate, frame size and threshold are in range;
\* otherwise nothing is built and the error is InvalidSampleRate(value) for
\* a sample rate out of range and InvalidConfig else.
C9_CreateExactlyWhenInRange ==
    new_result # NoOutcome =>
        /\ built <=> ConfigInRange(new_config)
        /\ new_result = Ok <=> ConfigInRange(new_config)
        /\ built => /\ state = "Idle" /\ ~is_running /\ callback = "None"
                    /\ config = new_config
        /\ ~ConfigInRange(new_config) =>
               new_result =
                   (IF \/ new_config.sample_rate < 8000
                       \/ new_config.sample_rate > 96000
                    THEN InvalidSampleRate(new_config.sample_rate)
                    ELSE InvalidConfig)

\* C9, the failing case: a listener was built from a configuration whose
\* threshold is NaN.
C9_NaNThresholdAccepted ==
    /\ built
    /\ new_result = Ok
    /\ new_config.detection_threshold.nan

\* C10: the listener state is never Error: it is Idle, Listening or
\* Processing in every reachable state.
C10_StateNeverError ==
    state \in {"Idle", "Listening", "Processing"}

\* C10, the case: calls of both kinds, failing and successful, have returned:
\* a stop_listening turned away and a processing call that ran the engine
\* and restored the state.
C10_AfterFailedAndCompletedCalls ==
    \E t, u \in Threads :
        /\ ret[t].outcome = ListenerNotRunning
        /\ ret[u].op \in ProcessingOps
        /\ ret[u].outcome = Ok
        /\ ret[u].result.detection_method # "mock"
        /\ state = "Idle"

\* C11: under fair scheduling every call made on the shared listener
\* returns: a thread inside an operation is eventually idle again, whatever
\* the other thread does (no call waits forever for the state, config,
\* engine or sink lock).
C11_EveryCallReturns ==
    \A t \in Threads : (pc[t] # "idle") ~> (pc[t] = "idle")

\* C11, the case: one thread waits for the engine's write lock while the
\* other holds it, and the sink is registered.
C11_WaitingForEngineLock ==
    \E t, u \in Threads :
        /\ t # u
        /\ callback = "sink"
        /\ pc[t] \in {"ps_engine_lock", "sd_engine"}
        /\ engine_lock = u

\* C12: from the write of Processing by a processing call until that call's
\* final state write or return, get_state returns Processing, whatever runs
\* concurrently.
C12_ProcessingWhileDetecting ==
    \A t \in Threads : Stepped(t) => state = "Processing"

\* C12, the failing case: a stop_listening by the other thread has returned
\* Ok while the call is still detecting, and the state reads Idle.
C12_StoppedWhileDetecting ==
    \E t, u \in Threads :
        /\ t # u
        /\ Stepped(t)
        /\ pc[u] = "idle"
        /\ ret[u].op = "stop_listening"
        /\ ret[u].outcome = Ok
        /\ state = "Idle"

\* C13: a processing call made while a sink is registered notifies the sink
\* of a detection exactly once before it returns if its result has
\* detected = true, and never if it returns detected = false or an error;
\* no call notifies a detection twice.
C13_DetectionNotifiedOnce ==
    \A t \in Threads :
        /\ notes[t].detected <= 1
        /\ (/\ pc[t] = "idle"
            /\ ret[t].op \in ProcessingOps
            /\ callback = "sink")
           => notes[t].detected =
                  (IF ret[t].outcome = Ok /\ ret[t].result.detected
                   THEN 1 ELSE 0)

\* C13, the case: with a sink registered, a call answered by the engine has
\* returned a detection and notified it once.
C13_EngineDetectionNotified ==
    \E t \in Threads :
        /\ pc[t] = "idle"
        /\ callback = "sink"
        /\ ret[t].op \in ProcessingOps
        /\ ret[t].outcome = Ok
        /\ ret[t].result.detected
        /\ ret[t].result.detection_method = "chirp_sync"
        /\ notes[t].detected = 1
        /\ notes[t].level = 1

\* C14: whenever no set_detection_threshold call is in flight, the threshold
\* get_config reports equals the threshold the engine compares against.
C14_ThresholdCopiesAgree ==
    (\A t \in Threads : op[t] # "set_detection_threshold")
    => config.detection_threshold = dsp_engine.config.detection_threshold

\* C14, the failing case: two set_detection_threshold calls with values in
\* [0, 1] have both returned and the two copies differ.
C14_ThresholdCopiesDiffer ==
    /\ \A t \in Threads :
           /\ pc[t] = "idle"
           /\ ret[t].op = "set_detection_threshold"
    /\ InUnitRange(config.detection_threshold)
    /\ InUnitRange(dsp_engine.config.detection_threshold)
    /\ config.detection_threshold # dsp_engine.config.detection_threshold

\* C15: whenever no operation is in flight, state = Listening implies that
\* the running flag is set.
C15_ListeningImpliesRunning ==
    (AllIdle /\ state = "Listening") => is_running

\* C15, the failing case: a stop_listening has succeeded, a processing call
\* that ran the engine has returned after it, nothing is in flight, and the
\* state is Listening with the flag clear.
C15_ListeningAfterStop ==
    \E t, u \in Threads :
        /\ AllIdle
        /\ ret[t].op = "stop_listening"
        /\ ret[t].outcome = Ok
        /\ ret[u].op \in ProcessingOps
        /\ ret[u].outcome = Ok
        /\ state = "Listening"
        /\ ~is_running

\* C16: every result with detected = true returned by a processing call has
\* a confidence strictly above the configured detection threshold, whichever
\* stage produced it.
C16_DetectedAboveThreshold ==
    \A t \in Threads :
        (/\ pc[t] = "idle"
         /\ ret[t].op \in ProcessingOps
         /\ ret[t].outcome = Ok
         /\ ret[t].result.detected)
        => FGreater(F32(ret[t].result.confidence), config.detection_threshold)

\* C16, the failing case: on the default configuration (threshold 0.5) the
\* byte pre-filter has answered with a detection of confidence 0.25.
C16_PrefilterBelowThreshold ==
    \E t \in Threads :
        /\ pc[t] = "idle"
        /\ config = DefaultConfig
        /\ ret[t].op = "process_buffer"
        /\ ret[t].outcome = Ok
        /\ ret[t].result.detected
        /\ ret[t].result.detection_method = "mock"
        /\ ret[t].result.confidence = 250

====
